---- MODULE Spec2Model ----
\* Model of the AutomatedProbing scripts:
\*   get_conductivity.py  - AutomatedProbeSystem.run, the measurement run
\*   check_connection.py  - check_stage, check_probe, main
\* The stage (Thorlabs KinesisMotor) and the probe (xtralien Device) are
\* external devices: every call on them either returns, raises an Exception
\* or is interrupted by the user (KeyboardInterrupt).
EXTENDS Integers, Sequences, FiniteSets, TLC

\* ---------------------------------------------------------------- numbers
\* Python floats are modelled as exact decimal-scaled rationals
\*   [n, d, e]  =  (n / d) * 10^e   with d > 0,
\* so that thresholds such as 1e-7 and 1e-9 and the factor 4.532 are exact.

AbsInt(x) == IF x < 0 THEN -x ELSE x

RECURSIVE Gcd(_, _)
Gcd(a, b) == IF b = 0 THEN a ELSE Gcd(b, a % b)

R(n, d, e) ==
    LET g == Gcd(AbsInt(n), d)
    IN  IF n = 0 THEN [n |-> 0, d |-> 1, e |-> 0]
        ELSE [n |-> n \div g, d |-> d \div g, e |-> e]

RZero == R(0, 1, 0)
\* Python's None where a float is expected (no rational has d = 0)
None == [n |-> 0, d |-> 0, e |-> 0]
ROne == R(1, 1, 0)
RAbs(a) == R(AbsInt(a.n), a.d, a.e)
RMul(a, b) == R(a.n * b.n, a.d * b.d, a.e + b.e)
\* a / b for b # 0
RDiv(a, b) ==
    IF b.n > 0 THEN R(a.n * b.d, a.d * b.n, a.e - b.e)
    ELSE R(-(a.n * b.d), a.d * (-b.n), a.e - b.e)
RIsPos(a) == a.n > 0
RIsNeg(a) == a.n < 0

\* x * 10^k > y for naturals x, y, k, without forming x * 10^k
RECURSIVE GtPow(_, _, _)
GtPow(x, y, k) ==
    IF x > y THEN TRUE
    ELSE IF k = 0 THEN FALSE
    ELSE GtPow(10 * x, y, k - 1)

\* x > y * 10^k for naturals x, y, k
RECURSIVE GtPowR(_, _, _)
GtPowR(x, y, k) ==
    IF k = 0 THEN x > y
    ELSE IF y >= x THEN FALSE
    ELSE GtPowR(x, 10 * y, k - 1)

\* a > b for a, b >= 0
RGtNonNeg(a, b) ==
    IF a.n = 0 THEN FALSE
    ELSE IF b.n = 0 THEN TRUE
    ELSE IF a.e >= b.e THEN GtPow(a.n * b.d, b.n * a.d, a.e - b.e)
    ELSE GtPowR(a.n * b.d, b.n * a.d, b.e - a.e)

\* x * 10^k = y for integers x, y and natural k
RECURSIVE EqPow(_, _, _)
EqPow(x, y, k) ==
    IF k = 0 THEN x = y
    ELSE IF AbsInt(x) > AbsInt(y) THEN FALSE
    ELSE EqPow(10 * x, y, k - 1)

REq(a, b) ==
    IF a.e >= b.e THEN EqPow(a.n * b.d, b.n * a.d, a.e - b.e)
    ELSE EqPow(b.n * a.d, a.n * b.d, b.e - a.e)

\* ---------------------------------------------------------- configuration
STEPS_PER_MM == 34304
\* int(5.4 * 34304) = int(185241.6)
CONTACT_HEIGHT_STEPS == 185241
\* 0.1 V
TEST_VOLTAGE == R(1, 1, -1)
\* 0.0001 A
CONTACT_THRESHOLD == R(1, 1, -4)
\* 4.532
CORRECTION_FACTOR == R(4532, 1, -3)
\* 1e-7 A, the guard of the sheet-resistance division
MIN_CURRENT == R(1, 1, -7)
\* 1e-9 Ohm/sq, the guard of the conductivity division
MIN_RS == R(1, 1, -9)

\* RETRY_INCREMENT_MM = 0.1 = 1 / RETRY_INCREMENT_DEN mm
RETRY_INCREMENT_DEN == 10
\* Heights in mm are kept as whole numbers of 1/(10 * STEPS_PER_MM) mm, i.e.
\* tenths of a motor step: 0.1 mm is 0.1 * 34304 = 3430.4 steps = 34304
\* tenths of a step.
TENTHS_PER_MM == STEPS_PER_MM * RETRY_INCREMENT_DEN
RETRY_INCREMENT_T == TENTHS_PER_MM \div RETRY_INCREMENT_DEN

\* ------------------------------------------------------------------ bounds
\* the retry prompt has no limit in the code; the model explores this many
MaxRetries == 5
\* the sweep has 51 set voltages in the code; the model runs this many
SweepPoints == 2

\* ------------------------------------------------------------------ inputs
\* what a device call can do: return, raise an Exception, or be interrupted
Outcomes == {"ok", "exc", "kbd"}
\* thickness typed at the prompt, in mm; text that float() rejects is None
ThicknessInputs == {None, R(0, 1, 0), R(-1, 1, 0), R(1, 1, -3), R(2, 1, 0)}
\* position the stage reports after the move to the contact height
ContactPositions == {CONTACT_HEIGHT_STEPS - 1, CONTACT_HEIGHT_STEPS}
\* current (A) the probe reports for the test voltage
TestCurrents == {R(-99, 1, -6), R(1, 1, -4), R(-5, 1, -3)}
\* the retry prompt
Choices == {"1", "2", "3", "x"}
\* position (steps) the stage is at when the connection check starts
StartPositions == {-500, -11, -10, 0, 10, 11}
\* (voltage V, current A) the probe reports for one sweep point
SweepReadings ==
    { [v |-> R(-5, 1, -1), i |-> R(2, 1, -3)],
      [v |-> R(-5, 1, -1), i |-> R(-2, 1, -7)],
      [v |-> R(5, 1, -1),  i |-> R(1, 1, -7)],
      [v |-> R(0, 1, 0),   i |-> R(2, 1, -3)],
      [v |-> R(1, 1, -12), i |-> R(1, 1, -1)] }

\* ------------------------------------------------------------------- state
VARIABLES
    \* get_conductivity.py: control
    pc,             \* the statement run() is at
    after,          \* how run() got into shutdown(): "ok", "abort", "kbd", "exc"
    topCaught,      \* what run()'s except clauses caught: "none", "kbd", "exc"
    excPhases,      \* the phases in which a device call raised an Exception
    shutdownCalled, \* shutdown() has been entered
    ret,            \* run()'s return value, -1 until it returns (pc = "done")
    \* devices
    stage,          \* self.stage: "none", "open", "closed" (close() called)
    probe,          \* self.probe: likewise
    probeV,         \* voltage the probe is left at: "zero", "test", "sweep"
    lastCmd,        \* last target given to stage.move_to, -1 before any
    \* sample
    thickness,      \* self.thickness_m
    isHomed,        \* what stage.is_homed() returned in connect_devices:
                    \* "none" before, "true", "false"
    \* contact
    contactCmd,     \* move_to(CONTACT_HEIGHT_STEPS) was issued
    contactReached, \* wait_move() returned after it
    initT,          \* height move_to_contact returned (tenths of a step)
    heightT,        \* current_height_mm of the running verify_contact call
    raises,         \* retry moves issued by verify_contact
    testCount,      \* oneshot(TEST_VOLTAGE) calls that returned
    lastI,          \* meas_i of the latest test, None before any
    lastChoice,     \* latest input at the retry prompt, "none" before any
    verifyResult,   \* what verify_contact returned: "none", "true", "false"
    \* sweep and results
    sweepIdx,       \* set voltages tried so far
    sweepDone,      \* run_measurement returned
    results,        \* the list run_measurement builds
    persisted,      \* save_results wrote the CSV and the plot
    csv,            \* the rows it wrote
    homeCmd,        \* move_to(0) was issued by return_home
    \* check_connection.py
    cpc,            \* the statement the script is at
    cstage,         \* check_stage's stage: "none", "open", "closed"
    cprobe,         \* check_probe's device: likewise
    devHomed,       \* the stage controller's homed flag
    devPos,         \* the stage's position (steps)
    homedRead,      \* is_homed as read: "none", "true", "false"
    posRead,        \* current_pos as read
    homeIssued,     \* stage.home() was called
    moveIssued,     \* stage.move_to(0) was called
    stageFailed,    \* a stage call raised an Exception
    stage_ok,       \* check_stage's result: "none", "true", "false"
    probe_ok,       \* check_probe's result: likewise
    cret            \* main()'s return value, -1 until it returns

ctl == <<pc, after, topCaught, excPhases, ret>>
devs == <<stage, probe, probeV, lastCmd>>
contact == <<contactCmd, contactReached, initT, heightT, raises, testCount,
             lastI, lastChoice, verifyResult>>
sweep == <<sweepIdx, sweepDone, results, persisted, csv>>
runVars == <<ctl, shutdownCalled, devs, thickness, isHomed, contact, sweep,
            homeCmd>>
chkVars == <<cpc, cstage, cprobe, devHomed, devPos, homedRead, posRead,
             homeIssued, moveIssued, stageFailed, stage_ok, probe_ok, cret>>
vars == <<runVars, chkVars>>

\* AutomatedProbeSystem.__init__
NewSystem ==
    /\ after = "ok" /\ topCaught = "none"
    /\ excPhases = {} /\ shutdownCalled = FALSE /\ ret = -1
    /\ stage = "none" /\ probe = "none" /\ probeV = "zero" /\ lastCmd = -1
    /\ thickness = None /\ isHomed = "none"
    /\ contactCmd = FALSE /\ contactReached = FALSE /\ initT = -1
    /\ heightT = -1 /\ raises = 0 /\ testCount = 0 /\ lastI = None
    /\ lastChoice = "none" /\ verifyResult = "none"
    /\ sweepIdx = 0 /\ sweepDone = FALSE /\ results = <<>> /\ persisted = FALSE /\ csv = <<>>
    /\ homeCmd = FALSE

\* the start of run()
InitRun == pc = "get_sample_details" /\ NewSystem

\* the measurement script is not running
RunIdle == pc = "idle" /\ NewSystem

\* the connection check is not running
ChkIdle ==
    /\ cpc = "idle" /\ cstage = "none" /\ cprobe = "none"
    /\ devHomed = FALSE /\ devPos = 0 /\ homedRead = "none" /\ posRead = 0
    /\ homeIssued = FALSE /\ moveIssued = FALSE /\ stageFailed = FALSE
    /\ stage_ok = "none" /\ probe_ok = "none" /\ cret = -1

\* ------------------------------------------------ run(): control transfers
Goto(p) == pc' = p /\ UNCHANGED <<after, topCaught, excPhases, ret>>

\* bug variant: the except clause returns 1 without calling shutdown()
RaiseToRunNoShutdown(kind, phase) ==
    /\ pc' = "done"
    /\ after' = kind
    /\ topCaught' = kind
    /\ excPhases' = IF kind = "exc" THEN excPhases \cup {phase} ELSE excPhases
    /\ ret' = 1

\* an exception leaves the try body of run(): the except clause prints and
\* calls shutdown()
RaiseToRun(kind, phase) ==
    /\ pc' = "sd_probe"
    /\ after' = kind
    /\ topCaught' = kind
    /\ excPhases' = IF kind = "exc" THEN excPhases \cup {phase} ELSE excPhases
    /\ ret' = ret

\* a device call of the given phase: on "ok" go on to q
Call(o, phase, q) == IF o = "ok" THEN Goto(q) ELSE RaiseToRun(o, phase)

\* connect_devices returns False (after catching o, if any) and run returns 1
ConnectFalse(o) ==
    /\ pc' = "done"
    /\ ret' = 1
    /\ excPhases' = IF o = "exc" THEN excPhases \cup {"connect"} ELSE excPhases
    /\ UNCHANGED <<after, topCaught>>

\* inside connect_devices: Exception is caught there, KeyboardInterrupt is not
ConnectCall(o, q) ==
    IF o = "ok" THEN Goto(q)
    ELSE IF o = "exc" THEN ConnectFalse(o)
    ELSE RaiseToRun(o, "connect")

\* the value run() returns once shutdown() is over
ExitCode(how) == IF how = "ok" THEN 0 ELSE 1

\* --------------------------------------------------- get_sample_details
ValidThickness(t) == t # None /\ RIsPos(t)

\* thickness_m = thickness_mm * 1e-3
ThicknessMetres(thickness_mm) == RMul(thickness_mm, R(1, 1, -3))

\* the prompt is repeated until the input is a positive number
GetSampleDetails ==
    /\ pc = "get_sample_details"
    /\ \E t \in ThicknessInputs, o \in {"ok", "kbd"} :
         IF o = "kbd" THEN RaiseToRun("kbd", "input") /\ UNCHANGED thickness
         ELSE IF ValidThickness(t)
              THEN thickness' = ThicknessMetres(t) /\ Goto("c_stage_ctor")
              ELSE UNCHANGED <<thickness, ctl>>
    /\ UNCHANGED <<shutdownCalled, devs, isHomed, contact, sweep, homeCmd, chkVars>>

\* ------------------------------------------------------- connect_devices
ConnectStageOpen ==
    /\ pc = "c_stage_ctor"
    /\ \E o \in Outcomes :
         /\ ConnectCall(o, "c_enable")
         /\ stage' = IF o = "ok" THEN "open" ELSE stage
    /\ UNCHANGED <<shutdownCalled, probe, probeV, lastCmd, thickness, isHomed, contact,
                   sweep, homeCmd, chkVars>>

ConnectStageEnable ==
    /\ pc = "c_enable"
    /\ \E o \in Outcomes : ConnectCall(o, "c_is_homed")
    /\ UNCHANGED <<shutdownCalled, devs, thickness, isHomed, contact, sweep, homeCmd,
                   chkVars>>

\* bug variant: the answer of is_homed() is not looked at
HomedCheckIgnored(o) ==
    IF o = "not_homed" THEN Goto("c_probe_ctor") ELSE ConnectCall(o, "c_probe_ctor")

\* if not self.stage.is_homed(): return False
HomedCheck(o) ==
    IF o = "not_homed" THEN ConnectFalse(o) ELSE ConnectCall(o, "c_probe_ctor")

\* is_homed() returns True ("ok") or False ("not_homed"), or raises
ConnectStageIsHomed ==
    /\ pc = "c_is_homed"
    /\ \E o \in Outcomes \cup {"not_homed"} :
         /\ HomedCheck(o)
         /\ isHomed' = IF o = "ok" THEN "true"
                        ELSE IF o = "not_homed" THEN "false" ELSE isHomed
    /\ UNCHANGED <<shutdownCalled, devs, thickness, contact, sweep, homeCmd,
                   chkVars>>

ConnectProbeOpen ==
    /\ pc = "c_probe_ctor"
    /\ \E o \in Outcomes :
         /\ IF o = "ok" THEN Goto("m_getpos")
            ELSE IF o = "kbd" THEN RaiseToRun(o, "connect")
            ELSE /\ pc' = "c_close_stage"
                 /\ excPhases' = excPhases \cup {"connect"}
                 /\ UNCHANGED <<after, topCaught, ret>>
         /\ probe' = IF o = "ok" THEN "open" ELSE probe
    /\ UNCHANGED <<shutdownCalled, stage, probeV, lastCmd, thickness, isHomed, contact,
                   sweep, homeCmd, chkVars>>

\* the except clause of the probe connection: self.stage.close(); return False
ConnectCloseStage ==
    /\ pc = "c_close_stage"
    /\ stage' = "closed"
    /\ \E o \in Outcomes :
         IF o = "ok" THEN ConnectFalse(o) ELSE RaiseToRun(o, "connect")
    /\ UNCHANGED <<shutdownCalled, probe, probeV, lastCmd, thickness, isHomed, contact,
                   sweep, homeCmd, chkVars>>

\* ------------------------------------------------------- move_to_contact
MoveGetPosition ==
    /\ pc = "m_getpos"
    /\ \E o \in Outcomes : Call(o, "move", "m_move")
    /\ UNCHANGED <<shutdownCalled, devs, thickness, isHomed, contact, sweep, homeCmd,
                   chkVars>>

MoveToContact ==
    /\ pc = "m_move"
    /\ contactCmd' = TRUE
    /\ lastCmd' = CONTACT_HEIGHT_STEPS
    /\ \E o \in Outcomes : Call(o, "move", "m_wait")
    /\ UNCHANGED <<shutdownCalled, stage, probe, probeV, thickness, isHomed,
                   contactReached, initT, heightT, raises, testCount, lastI,
                   lastChoice, verifyResult, sweep, homeCmd, chkVars>>

MoveWait ==
    /\ pc = "m_wait"
    /\ \E o \in Outcomes :
         /\ Call(o, "move", "m_getpos2")
         /\ contactReached' = (o = "ok")
    /\ UNCHANGED <<shutdownCalled, devs, thickness, isHomed, contactCmd, initT, heightT,
                   raises, testCount, lastI, lastChoice, verifyResult, sweep,
                   homeCmd, chkVars>>

\* final_mm = final_pos / STEPS_PER_MM, returned and passed to verify_contact
MoveFinalPosition ==
    /\ pc = "m_getpos2"
    /\ \E o \in Outcomes, final_pos \in ContactPositions :
         /\ Call(o, "move", "v_config")
         /\ initT' = IF o = "ok" THEN final_pos * RETRY_INCREMENT_DEN ELSE initT
         /\ heightT' = IF o = "ok" THEN final_pos * RETRY_INCREMENT_DEN ELSE heightT
    /\ UNCHANGED <<shutdownCalled, devs, thickness, isHomed, contactCmd, contactReached,
                   raises, testCount, lastI, lastChoice, verifyResult, sweep,
                   homeCmd, chkVars>>

\* -------------------------------------------------------- verify_contact
\* bug variant: the result of verify_contact is not looked at
AfterVerifyIgnored(result) == "s_point"

\* bug variant: the abort branch shuts down without return_home()
AfterVerifyNoHome(result) == IF result THEN "s_point" ELSE "sd_probe"

\* where run() goes when verify_contact returns
AfterVerify(result) == IF result THEN "s_point" ELSE "h_move"

\* meas_i >= CONTACT_THRESHOLD
GoodContact(meas_i) == ~RGtNonNeg(CONTACT_THRESHOLD, meas_i)

\* bug variant: the increment is added twice
RetryHeightDouble(h) == h + 2 * RETRY_INCREMENT_T

\* bug variant: every retry starts again from the nominal contact height
RetryHeightFromContact(h) ==
    CONTACT_HEIGHT_STEPS * RETRY_INCREMENT_DEN + RETRY_INCREMENT_T

\* new_height_mm = current_height_mm + RETRY_INCREMENT_MM
RetryHeight(h) == h + RETRY_INCREMENT_T

\* int(new_height_mm * STEPS_PER_MM): truncation; where the product is a whole
\* number of steps in exact arithmetic, floating point may round it just below
\* (185241 / 34304 + 5 * 0.1 gives 202392, not 202393)
ToSteps(h) ==
    IF h % RETRY_INCREMENT_DEN = 0
    THEN {h \div RETRY_INCREMENT_DEN, (h \div RETRY_INCREMENT_DEN) - 1}
    ELSE {h \div RETRY_INCREMENT_DEN}

VerifyConfigure ==
    /\ pc = "v_config"
    /\ \E o \in Outcomes : Call(o, "verify", "v_oneshot")
    /\ UNCHANGED <<shutdownCalled, devs, thickness, isHomed, contact, sweep, homeCmd,
                   chkVars>>

VerifyOneshot ==
    /\ pc = "v_oneshot"
    /\ \E o \in Outcomes, i \in TestCurrents, applied \in BOOLEAN :
         /\ Call(o, "verify", "v_reset")
         /\ probeV' = IF o = "ok" \/ applied THEN "test" ELSE probeV
         /\ testCount' = IF o = "ok" THEN testCount + 1 ELSE testCount
         /\ lastI' = IF o = "ok" THEN RAbs(i) ELSE lastI
    /\ UNCHANGED <<shutdownCalled, stage, probe, lastCmd, thickness, isHomed, contactCmd,
                   contactReached, initT, heightT, raises, lastChoice,
                   verifyResult, sweep, homeCmd, chkVars>>

VerifyReset ==
    /\ pc = "v_reset"
    /\ \E o \in Outcomes :
         IF o # "ok"
         THEN RaiseToRun(o, "verify") /\ UNCHANGED <<probeV, verifyResult>>
         ELSE /\ probeV' = "zero"
              /\ IF GoodContact(lastI)
                 THEN verifyResult' = "true" /\ Goto(AfterVerify(TRUE))
                 ELSE verifyResult' = verifyResult /\ Goto("v_choice")
    /\ UNCHANGED <<shutdownCalled, stage, probe, lastCmd, thickness, isHomed, contactCmd,
                   contactReached, initT, heightT, raises, testCount, lastI,
                   lastChoice, sweep, homeCmd, chkVars>>

VerifyChoice ==
    /\ pc = "v_choice"
    /\ \E c \in Choices \cup {"kbd"} :
         CASE c = "kbd" ->
                RaiseToRun("kbd", "input") /\ UNCHANGED <<lastChoice, verifyResult>>
           [] c = "1" ->
                /\ raises < MaxRetries
                /\ lastChoice' = c /\ verifyResult' = verifyResult
                /\ Goto("v_retry_move")
           [] c = "2" ->
                /\ lastChoice' = c /\ verifyResult' = "false"
                /\ pc' = AfterVerify(FALSE) /\ after' = "abort"
                /\ UNCHANGED <<topCaught, excPhases, ret>>
           [] c = "3" ->
                /\ lastChoice' = c /\ verifyResult' = "true"
                /\ Goto(AfterVerify(TRUE))
           [] OTHER ->
                lastChoice' = c /\ UNCHANGED <<verifyResult, ctl>>
    /\ UNCHANGED <<shutdownCalled, devs, thickness, isHomed, contactCmd, contactReached,
                   initT, heightT, raises, testCount, lastI, sweep, homeCmd,
                   chkVars>>

\* choice '1': move to the new height
VerifyRetryMove ==
    /\ pc = "v_retry_move"
    /\ heightT' = RetryHeight(heightT)
    /\ \E new_height_steps \in ToSteps(RetryHeight(heightT)) :
         lastCmd' = new_height_steps
    /\ raises' = raises + 1
    /\ \E o \in Outcomes : Call(o, "verify", "v_retry_wait")
    /\ UNCHANGED <<shutdownCalled, stage, probe, probeV, thickness, isHomed, contactCmd,
                   contactReached, initT, testCount, lastI, lastChoice,
                   verifyResult, sweep, homeCmd, chkVars>>

\* wait_move, settle, then verify_contact(new_height_mm)
VerifyRetryWait ==
    /\ pc = "v_retry_wait"
    /\ \E o \in Outcomes : Call(o, "verify", "v_config")
    /\ UNCHANGED <<shutdownCalled, devs, thickness, isHomed, contact, sweep, homeCmd,
                   chkVars>>

\* -------------------------------------------------------- run_measurement
SheetResistance(meas_v, meas_i) ==
    IF RGtNonNeg(RAbs(meas_i), MIN_CURRENT)
    THEN RMul(RDiv(meas_v, meas_i), CORRECTION_FACTOR)
    ELSE RZero

\* bug variant: abs() is missing in the division
ConductivitySigned(rs, thickness_m) ==
    IF RGtNonNeg(RAbs(rs), MIN_RS) /\ RIsPos(thickness_m)
    THEN RDiv(ROne, RMul(rs, thickness_m))
    ELSE RZero

Conductivity(rs, thickness_m) ==
    IF RGtNonNeg(RAbs(rs), MIN_RS) /\ RIsPos(thickness_m)
    THEN RDiv(ROne, RMul(RAbs(rs), thickness_m))
    ELSE RZero

\* bug variant: the Rs column holds the signed value
RecordedRsSigned(rs) == rs

\* the Rs column of the result row
RecordedRs(rs) == RAbs(rs)

\* results.append([meas_i, meas_v, abs(rs), sigma])
ResultRow(meas_v, meas_i, thickness_m) ==
    LET rs == SheetResistance(meas_v, meas_i)
    IN  <<meas_i, meas_v, RecordedRs(rs), Conductivity(rs, thickness_m)>>

\* one iteration of the sweep loop; an Exception is printed and the loop goes on
SweepPoint ==
    /\ pc = "s_point"
    /\ sweepIdx' = sweepIdx + 1
    /\ sweepDone' = (sweepIdx + 1 = SweepPoints)
    /\ probeV' = "sweep"
    /\ \E o \in Outcomes, r \in SweepReadings :
         /\ results' = IF o = "ok"
                       THEN Append(results, ResultRow(r.v, r.i, thickness))
                       ELSE results
         /\ IF o = "kbd" THEN RaiseToRun(o, "sweep")
            ELSE /\ pc' = IF sweepIdx + 1 = SweepPoints THEN "save" ELSE "s_point"
                 /\ excPhases' = IF o = "exc" THEN excPhases \cup {"sweep"}
                                 ELSE excPhases
                 /\ UNCHANGED <<after, topCaught, ret>>
    /\ UNCHANGED <<shutdownCalled, stage, probe, lastCmd, thickness, isHomed, contact,
                   persisted, csv, homeCmd, chkVars>>

\* ----------------------------------------------------------- save_results
SaveResults ==
    /\ pc = "save"
    /\ \E o \in Outcomes :
         /\ Call(o, "save", "h_move")
         /\ csv' = IF o = "ok" THEN results ELSE csv
         /\ persisted' = (o = "ok")
    /\ UNCHANGED <<shutdownCalled, devs, thickness, isHomed, contact, sweepIdx,
                   sweepDone, results, homeCmd, chkVars>>

\* ------------------------------------------------------------ return_home
ReturnHomeMove ==
    /\ pc = "h_move"
    /\ homeCmd' = TRUE
    /\ lastCmd' = 0
    /\ \E o \in Outcomes : Call(o, "home", "h_wait")
    /\ UNCHANGED <<shutdownCalled, stage, probe, probeV, thickness, isHomed, contact,
                   sweep, chkVars>>

ReturnHomeWait ==
    /\ pc = "h_wait"
    /\ \E o \in Outcomes : Call(o, "home", "h_getpos")
    /\ UNCHANGED <<shutdownCalled, devs, thickness, isHomed, contact, sweep, homeCmd,
                   chkVars>>

ReturnHomeGetPosition ==
    /\ pc = "h_getpos"
    /\ \E o \in Outcomes : Call(o, "home", "sd_probe")
    /\ UNCHANGED <<shutdownCalled, devs, thickness, isHomed, contact, sweep, homeCmd,
                   chkVars>>

\* --------------------------------------------------------------- shutdown
\* if self.probe: try: voltage(0); enabled(False); close() except: pass
\* "failed" names the call that raised, "none" when all three returned
ShutdownProbe ==
    /\ pc = "sd_probe"
    /\ shutdownCalled' = TRUE
    /\ IF probe = "none" THEN UNCHANGED <<probe, probeV>>
       ELSE \E failed \in {"voltage", "enabled", "close", "none"} :
              /\ probe' = IF failed \in {"close", "none"} THEN "closed" ELSE probe
              /\ probeV' = IF failed = "voltage" THEN probeV ELSE "zero"
    /\ Goto("sd_stage")
    /\ UNCHANGED <<stage, lastCmd, thickness, isHomed, contact, sweep, homeCmd, chkVars>>

\* if self.stage: try: close() except: pass; then run() returns
ShutdownStage ==
    /\ pc = "sd_stage"
    /\ stage' = IF stage = "none" THEN stage ELSE "closed"
    /\ pc' = "done"
    /\ ret' = ExitCode(after)
    /\ UNCHANGED <<after, topCaught, excPhases, shutdownCalled, probe, probeV,
                   lastCmd, thickness, isHomed, contact, sweep, homeCmd, chkVars>>

NextRun ==
    \/ GetSampleDetails
    \/ ConnectStageOpen \/ ConnectStageEnable \/ ConnectStageIsHomed
    \/ ConnectProbeOpen \/ ConnectCloseStage
    \/ MoveGetPosition \/ MoveToContact \/ MoveWait \/ MoveFinalPosition
    \/ VerifyConfigure \/ VerifyOneshot \/ VerifyReset \/ VerifyChoice
    \/ VerifyRetryMove \/ VerifyRetryWait
    \/ SweepPoint \/ SaveResults
    \/ ReturnHomeMove \/ ReturnHomeWait \/ ReturnHomeGetPosition
    \/ ShutdownProbe \/ ShutdownStage

Init == InitRun /\ ChkIdle
Next == NextRun
Spec == Init /\ [][Next]_vars

\* ================================================== check_connection.py
\* the stage is in any state when the script starts; the measurement script
\* is not running
InitCheck ==
    /\ RunIdle
    /\ cpc = "cs_import" /\ cstage = "none" /\ cprobe = "none"
    /\ devHomed \in BOOLEAN /\ devPos \in StartPositions
    /\ homedRead = "none" /\ posRead = 0
    /\ homeIssued = FALSE /\ moveIssued = FALSE /\ stageFailed = FALSE
    /\ stage_ok = "none" /\ probe_ok = "none" /\ cret = -1

chkDev == <<cstage, cprobe, devHomed, devPos>>
chkReads == <<homedRead, posRead, homeIssued, moveIssued>>

\* check_stage's except clauses: print and return False; main goes on to
\* check_probe.  KeyboardInterrupt is caught nowhere and ends the script.
StageCall(o, q) ==
    /\ cpc' = IF o = "ok" THEN q ELSE IF o = "kbd" THEN "interrupted" ELSE "cp_import"
    /\ stage_ok' = IF o = "exc" THEN "false" ELSE stage_ok
    /\ stageFailed' = (stageFailed \/ o = "exc")

\* if not is_homed: home; elif abs(current_pos) > 10: move to 0
NeedsHoming(is_homed) == ~is_homed
\* bug variant: abs() is missing
NeedsMoveNoAbs(current_pos) == current_pos > 10
NeedsMove(current_pos) == AbsInt(current_pos) > 10
AfterStatus(is_homed, current_pos) ==
    IF NeedsHoming(is_homed) THEN "cs_home"
    ELSE IF NeedsMove(current_pos) THEN "cs_move"
    ELSE "cs_close"

\* from pylablib.devices import Thorlabs
CheckStageImport ==
    /\ cpc = "cs_import"
    /\ \E o \in {"ok", "import_error"} :
         /\ cpc' = IF o = "ok" THEN "cs_ctor" ELSE "cp_import"
         /\ stage_ok' = IF o = "ok" THEN stage_ok ELSE "false"
    /\ UNCHANGED <<chkDev, chkReads, stageFailed, probe_ok, cret, runVars>>

CheckStageOpen ==
    /\ cpc = "cs_ctor"
    /\ \E o \in Outcomes :
         /\ StageCall(o, "cs_enable")
         /\ cstage' = IF o = "ok" THEN "open" ELSE cstage
    /\ UNCHANGED <<cprobe, devHomed, devPos, chkReads, probe_ok, cret, runVars>>

CheckStageEnable ==
    /\ cpc = "cs_enable"
    /\ \E o \in Outcomes : StageCall(o, "cs_getpos")
    /\ UNCHANGED <<chkDev, chkReads, probe_ok, cret, runVars>>

CheckStageGetPosition ==
    /\ cpc = "cs_getpos"
    /\ \E o \in Outcomes :
         /\ StageCall(o, "cs_is_homed")
         /\ posRead' = IF o = "ok" THEN devPos ELSE posRead
    /\ UNCHANGED <<chkDev, homedRead, homeIssued, moveIssued, probe_ok, cret,
                   runVars>>

CheckStageIsHomed ==
    /\ cpc = "cs_is_homed"
    /\ \E o \in Outcomes :
         /\ StageCall(o, AfterStatus(devHomed, posRead))
         /\ homedRead' = IF o = "ok" THEN (IF devHomed THEN "true" ELSE "false")
                         ELSE homedRead
    /\ UNCHANGED <<chkDev, posRead, homeIssued, moveIssued, probe_ok, cret,
                   runVars>>

\* stage.home(sync=False)
CheckStageHome ==
    /\ cpc = "cs_home"
    /\ homeIssued' = TRUE
    /\ \E o \in Outcomes : StageCall(o, "cs_status")
    /\ UNCHANGED <<chkDev, homedRead, posRead, moveIssued, probe_ok, cret,
                   runVars>>

CheckStageGetStatus ==
    /\ cpc = "cs_status"
    /\ \E o \in Outcomes : StageCall(o, "cs_wait_home")
    /\ UNCHANGED <<chkDev, chkReads, probe_ok, cret, runVars>>

\* stage.wait_for_home(timeout=120): returns once the stage is homed, raises
\* when the timeout passes first
CheckStageWaitForHome ==
    /\ cpc = "cs_wait_home"
    /\ \E o \in Outcomes :
         /\ StageCall(o, "cs_getpos2")
         /\ devHomed' = (devHomed \/ o = "ok")
         /\ devPos' = IF o = "ok" THEN 0 ELSE devPos
    /\ UNCHANGED <<cstage, cprobe, chkReads, probe_ok, cret, runVars>>

CheckStageFinalPosition ==
    /\ cpc = "cs_getpos2"
    /\ \E o \in Outcomes : StageCall(o, "cs_close")
    /\ UNCHANGED <<chkDev, chkReads, probe_ok, cret, runVars>>

\* stage.move_to(0)
CheckStageMoveHome ==
    /\ cpc = "cs_move"
    /\ moveIssued' = TRUE
    /\ \E o \in Outcomes : StageCall(o, "cs_wait_move")
    /\ UNCHANGED <<chkDev, homedRead, posRead, homeIssued, probe_ok, cret,
                   runVars>>

CheckStageWaitMove ==
    /\ cpc = "cs_wait_move"
    /\ \E o \in Outcomes :
         /\ StageCall(o, "cs_getpos3")
         /\ devPos' = IF o = "ok" THEN 0 ELSE devPos
    /\ UNCHANGED <<cstage, cprobe, devHomed, chkReads, probe_ok, cret, runVars>>

CheckStageAtHome ==
    /\ cpc = "cs_getpos3"
    /\ \E o \in Outcomes : StageCall(o, "cs_close")
    /\ UNCHANGED <<chkDev, chkReads, probe_ok, cret, runVars>>

\* stage.close(); return True
CheckStageClose ==
    /\ cpc = "cs_close"
    /\ cstage' = "closed"
    /\ \E o \in Outcomes :
         /\ cpc' = IF o = "kbd" THEN "interrupted" ELSE "cp_import"
         /\ stage_ok' = IF o = "ok" THEN "true"
                        ELSE IF o = "exc" THEN "false" ELSE stage_ok
         /\ stageFailed' = (stageFailed \/ o = "exc")
    /\ UNCHANGED <<cprobe, devHomed, devPos, chkReads, probe_ok, cret, runVars>>

\* check_probe's except clauses: print and return False
ProbeCall(o, q) ==
    /\ cpc' = IF o = "ok" THEN q ELSE IF o = "kbd" THEN "interrupted" ELSE "main_ret"
    /\ probe_ok' = IF o = "exc" THEN "false" ELSE probe_ok

\* import xtralien
CheckProbeImport ==
    /\ cpc = "cp_import"
    /\ \E o \in {"ok", "import_error"} :
         /\ cpc' = IF o = "ok" THEN "cp_ctor" ELSE "main_ret"
         /\ probe_ok' = IF o = "ok" THEN probe_ok ELSE "false"
    /\ UNCHANGED <<chkDev, chkReads, stageFailed, stage_ok, cret, runVars>>

CheckProbeOpen ==
    /\ cpc = "cp_ctor"
    /\ \E o \in Outcomes :
         /\ ProbeCall(o, "cp_hello")
         /\ cprobe' = IF o = "ok" THEN "open" ELSE cprobe
    /\ UNCHANGED <<cstage, devHomed, devPos, chkReads, stageFailed, stage_ok,
                   cret, runVars>>

CheckProbeHello ==
    /\ cpc = "cp_hello"
    /\ \E o \in Outcomes : ProbeCall(o, "cp_temp")
    /\ UNCHANGED <<chkDev, chkReads, stageFailed, stage_ok, cret, runVars>>

CheckProbeTemperature ==
    /\ cpc = "cp_temp"
    /\ \E o \in Outcomes : ProbeCall(o, "cp_close")
    /\ UNCHANGED <<chkDev, chkReads, stageFailed, stage_ok, cret, runVars>>

\* device.close(); return True
CheckProbeClose ==
    /\ cpc = "cp_close"
    /\ cprobe' = "closed"
    /\ \E o \in Outcomes :
         /\ cpc' = IF o = "kbd" THEN "interrupted" ELSE "main_ret"
         /\ probe_ok' = IF o = "ok" THEN "true"
                        ELSE IF o = "exc" THEN "false" ELSE probe_ok
    /\ UNCHANGED <<cstage, devHomed, devPos, chkReads, stageFailed, stage_ok,
                   cret, runVars>>

\* bug variant: "or" for "and"
MainExitEither(s_ok, p_ok) == IF s_ok = "true" \/ p_ok = "true" THEN 0 ELSE 1

\* main(): return 0 if stage_ok and probe_ok else 1
MainExit(s_ok, p_ok) == IF s_ok = "true" /\ p_ok = "true" THEN 0 ELSE 1

CheckMainReturn ==
    /\ cpc = "main_ret"
    /\ cpc' = "done"
    /\ cret' = MainExit(stage_ok, probe_ok)
    /\ UNCHANGED <<chkDev, chkReads, stageFailed, stage_ok, probe_ok, runVars>>

NextCheck ==
    \/ CheckStageImport \/ CheckStageOpen \/ CheckStageEnable
    \/ CheckStageGetPosition \/ CheckStageIsHomed
    \/ CheckStageHome \/ CheckStageGetStatus \/ CheckStageWaitForHome
    \/ CheckStageFinalPosition
    \/ CheckStageMoveHome \/ CheckStageWaitMove \/ CheckStageAtHome
    \/ CheckStageClose
    \/ CheckProbeImport \/ CheckProbeOpen \/ CheckProbeHello
    \/ CheckProbeTemperature \/ CheckProbeClose
    \/ CheckMainReturn

SpecCheck == InitCheck /\ [][NextCheck]_vars

\* ================================================================ claims
Returned == pc = "done"
\* the phases whose calls are stage or probe calls made between connecting
\* and returning home
DevicePhases == {"connect", "move", "verify", "sweep", "home"}
\* the phases whose exceptions leave the try body of run()
PropagatingPhases == {"move", "verify", "home"}

\* ---- C1
\* C1 as stated: once run() has returned, if any stage or probe call raised
\* an Exception between connecting and returning home, that exception was
\* caught by run()'s except clause, run() returned non-zero and shutdown()
\* was called.
C1_AnyDeviceExceptionHandledAtTop ==
    (Returned /\ excPhases \cap DevicePhases # {})
        => (topCaught = "exc" /\ ret # 0 /\ shutdownCalled)

\* C1 amended: an Exception of a stage or probe call made after
\* connect_devices returned True and outside the sweep loop (move_to_contact,
\* verify_contact, return_home) reaches run()'s except clause: run() returns 1
\* and shutdown() was called.  Whatever run()'s except clauses catch leads to
\* shutdown() and exit code 1.  An Exception inside connect_devices is caught
\* there and makes run() return 1.
C1_PropagatedExceptionHandledAtTop ==
    Returned =>
        /\ (excPhases \cap PropagatingPhases # {}
                => (topCaught = "exc" /\ ret = 1 /\ shutdownCalled))
        /\ (topCaught # "none" => (ret = 1 /\ shutdownCalled))
        /\ ("connect" \in excPhases => ret = 1)

\* a run in which a call of verify_contact raised has returned
C1_Witness ==
    Returned /\ "verify" \in excPhases /\ topCaught = "exc" /\ ret = 1
        /\ shutdownCalled

\* ---- C2
\* C2: once run() has returned, close() has been called on every handle that
\* was opened (stage and probe).
C2_OpenedHandlesClosed ==
    Returned => (stage # "open" /\ probe # "open")

\* ---- C3
\* the order of the steps that holds on every path
OrderUpToPersistence ==
    \* sample metadata first: before any device is touched
    /\ (stage # "none" \/ probe # "none") => thickness # None
    \* a test voltage only after the stage was moved to the contact height
    /\ (testCount > 0 \/ probeV # "zero") => contactReached
    \* the sweep only after verify_contact returned True
    /\ sweepIdx > 0 => verifyResult = "true"
    \* persistence only after the sweep has finished
    /\ persisted => sweepDone

\* C3 as stated: the steps happen in order on every run: metadata, contact
\* height, test voltage, verify_contact True, sweep, persistence, home
\* (only after persistence), release of the handles (only after home); and
\* exit code 0 only after all of them.
C3_StepOrderEveryRun ==
    /\ OrderUpToPersistence
    /\ homeCmd => persisted
    /\ (stage = "closed" \/ probe = "closed") => homeCmd
    /\ (Returned /\ ret = 0)
         => (thickness # None /\ contactReached /\ testCount > 0
             /\ verifyResult = "true" /\ sweepDone /\ persisted /\ homeCmd
             /\ stage = "closed" /\ probe = "closed")

\* C3 amended: metadata, contact height, test voltage, verify_contact True,
\* sweep and persistence happen in that order on every run.  The stage is
\* commanded home only after persistence or after verify_contact returned
\* False (user abort).  With both devices connected and nothing caught by
\* run()'s except clauses, a handle is closed only after the stage was
\* commanded home.  Exit code 0 only after all steps, the last being
\* shutdown(), which closes the stage (probe.close() is skipped when zeroing
\* or disabling the probe raises).
C3_StepOrder ==
    /\ OrderUpToPersistence
    /\ homeCmd => (persisted \/ verifyResult = "false")
    /\ ((stage = "closed" \/ probe = "closed")
            /\ topCaught = "none" /\ probe # "none") => homeCmd
    /\ (Returned /\ ret = 0)
         => (thickness # None /\ contactReached /\ testCount > 0
             /\ verifyResult = "true" /\ sweepDone /\ persisted /\ homeCmd
             /\ shutdownCalled /\ stage = "closed")

\* a complete run has returned 0
C3_Witness ==
    Returned /\ ret = 0 /\ persisted /\ homeCmd /\ stage = "closed"
        /\ probe = "closed" /\ Len(csv) = SweepPoints

\* ---- C4
\* C4 as stated: whenever the stage was commanded to the contact height, it
\* has been commanded home before its handle is closed and before run()
\* returns, on every path.
C4_HomeBeforeCloseEveryPath ==
    (contactCmd /\ (stage = "closed" \/ Returned)) => homeCmd

\* C4 amended: the same on the paths that do not go through run()'s except
\* clauses (success and user abort); after an exception or interrupt
\* shutdown() closes the stage where it stands.
C4_HomeBeforeClose ==
    (contactCmd /\ (stage = "closed" \/ Returned) /\ topCaught = "none")
        => homeCmd

\* the user aborted at the retry prompt and run() has returned
C4_Witness ==
    Returned /\ after = "abort" /\ contactCmd /\ homeCmd /\ stage = "closed"
        /\ ret = 1

\* ---- C5
Rows == {csv[k] : k \in 1..Len(csv)}
Current(row) == row[1]
Voltage(row) == row[2]
Rs(row) == row[3]
Sigma(row) == row[4]
\* |I| > 1e-7
AboveMinCurrent(row) == RGtNonNeg(RAbs(Current(row)), MIN_CURRENT)
OppositeSigns(row) ==
    \/ RIsPos(Voltage(row)) /\ RIsNeg(Current(row))
    \/ RIsNeg(Voltage(row)) /\ RIsPos(Current(row))

\* C5 as stated: for every row written to the CSV with |I| > 1e-7 the sheet
\* resistance is (V / I) * 4.532, i.e. Rs * I = V * 4.532.
C5_RsIsSignedQuotient ==
    \A row \in Rows :
        AboveMinCurrent(row)
            => REq(RMul(Rs(row), Current(row)),
                   RMul(Voltage(row), CORRECTION_FACTOR))

\* C5 amended: for every row written to the CSV with |I| > 1e-7 the sheet
\* resistance is |V / I| * 4.532, i.e. Rs >= 0 and Rs * |I| = |V| * 4.532.
C5_RsIsAbsoluteQuotient ==
    \A row \in Rows :
        AboveMinCurrent(row)
            => /\ ~RIsNeg(Rs(row))
               /\ REq(RMul(Rs(row), RAbs(Current(row))),
                      RMul(RAbs(Voltage(row)), CORRECTION_FACTOR))

\* a row with V and I of opposite sign and |I| > 1e-7 was written
C5_Witness ==
    \E row \in Rows : AboveMinCurrent(row) /\ OppositeSigns(row)

\* ---- C6
\* |Rs| <= 1e-9
BelowMinRs(row) == ~RGtNonNeg(RAbs(Rs(row)), MIN_RS)

\* C6: in every row written to the CSV, the conductivity is 0 when
\* |I| <= 1e-7 (and then Rs is 0 too) or |Rs| <= 1e-9; otherwise, the
\* thickness being positive, sigma * Rs * thickness = 1; and it is never
\* negative.
C6_Conductivity ==
    \A row \in Rows :
        /\ ~AboveMinCurrent(row) => (Sigma(row) = RZero /\ Rs(row) = RZero)
        /\ BelowMinRs(row) => Sigma(row) = RZero
        /\ (AboveMinCurrent(row) /\ ~BelowMinRs(row) /\ RIsPos(thickness))
              => REq(RMul(Sigma(row), RMul(Rs(row), thickness)), ROne)
        /\ ~RIsNeg(Sigma(row))

\* the CSV holds a row with a positive conductivity computed from readings of
\* opposite sign, and a row whose non-zero Rs is below 1e-9 and whose
\* conductivity is 0
C6_Witness ==
    /\ \E row \in Rows : RIsPos(Sigma(row)) /\ OppositeSigns(row)
    /\ \E row \in Rows : RIsPos(Rs(row)) /\ BelowMinRs(row) /\ Sigma(row) = RZero
    /\ RIsPos(thickness)

\* ---- C7
\* the height commanded by the latest retry move, and the height the retries
\* add up to, in tenths of a step
InVerifyRetry == raises > 0 /\ ~homeCmd
CommandedT == lastCmd * RETRY_INCREMENT_DEN
ExactT == initT + raises * RETRY_INCREMENT_T

\* C7 as stated: verify_contact raises the stage at most a fixed number of
\* times.  The code names no such number, so a limit would be a number of
\* raises that no run reaches; the statement is taken with the largest limit
\* the model can tell from no limit, one below its exploration bound.
C7_RaisesBounded == raises < MaxRetries

\* C7 amended: verify_contact has no retry limit of its own.  It raises the
\* stage once for every answer '1', which is asked for only after a test
\* below the threshold, so there are never more raises than tests and never
\* more than one test ahead; after k raises the commanded height is at most
\* the initial height + k * 0.1 mm.
C7_OneRaisePerRetryChoice ==
    /\ raises <= testCount
    /\ testCount <= raises + 1
    /\ pc = "v_retry_move" => (lastChoice = "1" /\ ~GoodContact(lastI))
    /\ InVerifyRetry => CommandedT <= ExactT

\* the stage was raised as often as the model allows and verify_contact then
\* returned True
C7_Witness == raises = MaxRetries /\ verifyResult = "true"

\* ---- C10
\* C10 as stated, its first part: after k retries the commanded height is
\* exactly the initial height + k * 0.1 mm.
C10_CommandedHeightExact == InVerifyRetry => CommandedT = ExactT

\* the parts of C10 other than the commanded height
RetryProtocol ==
    \* a retry re-applies the test voltage: one test per raise, plus the first
    /\ pc \in {"v_reset", "v_choice", "v_retry_move"} => testCount = raises + 1
    /\ pc \in {"v_retry_wait", "v_config", "v_oneshot"} => testCount = raises
    \* an invalid choice leaves the prompt with nothing moved or measured
    /\ lastChoice = "x" => (pc = "v_choice" \/ topCaught = "kbd")
    \* the probe is back at 0 V at the prompt and when the stage is moved
    /\ pc \in {"v_choice", "v_retry_move"} => probeV = "zero"
    /\ pc = "v_retry_move" => lastChoice = "1"
    \* the prompt is shown only for a current below the threshold
    /\ pc = "v_choice" => ~GoodContact(lastI)
    \* True exactly for a good contact or override '3'
    /\ verifyResult = "true" => (GoodContact(lastI) \/ lastChoice = "3")
    /\ lastChoice = "3" => verifyResult = "true"
    /\ (lastI # None /\ GoodContact(lastI) /\ verifyResult # "true")
          => (pc = "v_reset" \/ "verify" \in excPhases \/ topCaught = "kbd")
    \* False exactly for abort '2'
    /\ verifyResult = "false" <=> lastChoice = "2"

\* C10 amended: each retry choice '1' adds 0.1 mm to the height carried from
\* call to call, and commands the stage to that height truncated to whole
\* motor steps: after k retries the height carried is the initial height +
\* k * 0.1 mm and the commanded position lies at most one step below it.
\* The rest as stated.
C10_RetryBehaviour ==
    /\ InVerifyRetry
         => (heightT = ExactT /\ CommandedT <= ExactT
             /\ ExactT - CommandedT <= RETRY_INCREMENT_DEN)
    /\ RetryProtocol

\* after two retries the test was applied a third time, verify_contact
\* returned, and the commanded position is not the exact height
C10_Witness ==
    /\ raises >= 2 /\ testCount = raises + 1 /\ verifyResult # "none"
    /\ CommandedT # ExactT

\* =============================================== claims: check_connection
\* ---- C8
\* C8: check_stage calls home() if and only if is_homed() returned False; it
\* returns True only with the stage homed, the stage commanded to 0 (by
\* homing or move_to(0)) or read within 10 steps of 0, and the handle
\* closed; it returns False when a stage call raised.
C8_CheckStage ==
    /\ homeIssued => homedRead = "false"
    /\ (homedRead = "false" /\ cpc # "cs_home") => homeIssued
    /\ stage_ok = "true"
         => /\ devHomed
            /\ cstage = "closed"
            /\ (homeIssued \/ moveIssued \/ AbsInt(posRead) <= 10)
    /\ stageFailed => stage_ok = "false"

\* check_stage passed after moving a homed stage from a negative position
C8_Witness ==
    stage_ok = "true" /\ moveIssued /\ posRead < -10 /\ homedRead = "true"

\* ---- C9
\* C9: main() returns 0 if and only if check_stage and check_probe both
\* returned True, 1 otherwise; check_probe has run whenever main() returns;
\* with exit code 0 both handles are closed.
C9_MainExit ==
    cpc = "done"
        => /\ cret = 0 <=> (stage_ok = "true" /\ probe_ok = "true")
           /\ cret # 0 => cret = 1
           /\ probe_ok # "none"
           /\ cret = 0 => (cstage = "closed" /\ cprobe = "closed")

\* the stage check failed, the probe check still ran and passed, exit code 1
C9_Witness ==
    cpc = "done" /\ stage_ok = "false" /\ probe_ok = "true" /\ cret = 1
        /\ cprobe = "closed"

\* ---- C11
\* a stage movement was commanded, a probe voltage applied, a result written
StageMoved == lastCmd # -1 \/ contactCmd \/ raises > 0 \/ homeCmd
VoltageApplied == probeV # "zero" \/ testCount > 0 \/ sweepIdx > 0
ResultWritten == persisted \/ Len(csv) > 0

\* C11: no stage movement is commanded unless is_homed() returned True in
\* connect_devices; when it returned False, run() has returned 1 with no
\* stage movement, no probe voltage applied and no result file written.
C11_NoMovementUnlessHomed ==
    /\ StageMoved => isHomed = "true"
    /\ isHomed = "false"
          => (Returned /\ ret = 1 /\ ~StageMoved /\ ~VoltageApplied
              /\ ~ResultWritten)

\* the stage answered that it is not homed and run() has returned 1
C11_Witness ==
    isHomed = "false" /\ Returned /\ ret = 1 /\ stage = "open" /\ ~StageMoved

\* a homed stage was moved to the contact height, to a retry height and home
C11_WitnessMoved ==
    isHomed = "true" /\ contactCmd /\ raises > 0 /\ homeCmd

====
